---- MODULE Spec2Model ----
(***************************************************************************)
(* DnssdLookupHelper (samples/RNWinRTTestApp/DnssdHelpers.ts): a singleton  *)
(* facade over the platform's device enumeration.  The model holds the      *)
(* facade's fields, the platform's watchers and devices, the timers of the  *)
(* delayed property reads, and one action per API call or platform event.   *)
(***************************************************************************)
EXTENDS Integers, Sequences, FiniteSets, TLC

\* ------------------------------------------------------------------ bounds
\* Watchers the platform hands out (successful createWatcher calls).
MaxWatchers == 2
\* Delayed property reads in flight at one time.
MaxPending == 2
\* Entries of an address list the platform reports for one device.
MaxAddresses == 3

\* --------------------------------------------------------- property keys
HOSTNAME_PROPERTY == "System.Devices.Dnssd.HostName"
SERVICENAME_PROPERTY == "System.Devices.Dnssd.ServiceName"
INSTANCENAME_PROPERTY == "System.Devices.Dnssd.InstanceName"
IPADDRESS_PROPERTY == "System.Devices.IpAddress"
PORTNUMBER_PROPERTY == "System.Devices.Dnssd.PortNumber"
TEXTATTRIBUTES_PROPERTY == "System.Devices.Dnssd.TextAttributes"

propertyKeys ==
    << HOSTNAME_PROPERTY, SERVICENAME_PROPERTY, INSTANCENAME_PROPERTY,
       IPADDRESS_PROPERTY, PORTNUMBER_PROPERTY, TEXTATTRIBUTES_PROPERTY >>

\* ------------------------------------------------- the IPv4 shape test
\* A string is the sequence of its characters.
Digits == {"0", "1", "2", "3", "4", "5", "6", "7", "8", "9"}

\* \w of the regular expression: [A-Za-z0-9_] (the letters addresses use).
WordChars ==
    Digits \cup {"a", "b", "c", "d", "e", "f", "A", "B", "C", "D", "E", "F", "_"}

CharAt(s, p) == IF p >= 1 /\ p <= Len(s) THEN s[p] ELSE ""

\* \b at offset p: exactly one of the characters around the offset is a word
\* character.
WordBoundary(s, p) ==
    (CharAt(s, p) \in WordChars) # (CharAt(s, p + 1) \in WordChars)

\* Offsets where (25[0-5]|(2[0-4]|1\d|[1-9]|)\d) can end when it starts at
\* offset p.
OctetEnds(s, p) ==
    LET c1 == CharAt(s, p + 1)
        c2 == CharAt(s, p + 2)
        c3 == CharAt(s, p + 3)
    IN  (IF c1 = "2" /\ c2 = "5" /\ c3 \in {"0", "1", "2", "3", "4", "5"}
            THEN {p + 3} ELSE {})
        \cup (IF c1 = "2" /\ c2 \in {"0", "1", "2", "3", "4"} /\ c3 \in Digits
            THEN {p + 3} ELSE {})
        \cup (IF c1 = "1" /\ c2 \in Digits /\ c3 \in Digits
            THEN {p + 3} ELSE {})
        \cup (IF c1 \in (Digits \ {"0"}) /\ c2 \in Digits
            THEN {p + 2} ELSE {})
        \cup (IF c1 \in Digits THEN {p + 1} ELSE {})

\* Offsets where one repetition, octet \.? \b, can end.
GroupEnds(s, p) ==
    { r \in UNION { {q} \cup (IF CharAt(s, q + 1) = "." THEN {q + 1} ELSE {})
                    : q \in OctetEnds(s, p) } : WordBoundary(s, r) }

RECURSIVE RepeatEnds(_, _)
RepeatEnds(s, n) ==
    IF n = 0 THEN {0}
    ELSE UNION { GroupEnds(s, p) : p \in RepeatEnds(s, n - 1) }

\* ipv4Pattern.test(s) for /^((25[0-5]|(2[0-4]|1\d|[1-9]|)\d)\.?\b){4}$/
ipv4PatternTest(s) == Len(s) \in RepeatEnds(s, 4)

\* ------------------------------------------------- property mapping
\* A property bag and a service record are functions from the keys (fields)
\* that are present to their values.
hasKey(properties, key) == key \in DOMAIN properties

lookup(properties, key) == properties[key]

\* serviceInfo.field = value
Assign(serviceInfo, field, value) ==
    [f \in (DOMAIN serviceInfo) \cup {field} |->
        IF f = field THEN value ELSE serviceInfo[f]]

\* The case with the second entry taken only when entry 0 went to ipv4Address.
MapIpAddressesElse(serviceInfo, ipAddressesArray) ==
    LET i1 == [f \in (DOMAIN serviceInfo) \cup {"ipAddresses"} |->
                 IF f = "ipAddresses" THEN ipAddressesArray ELSE serviceInfo[f]]
        first == IF Len(ipAddressesArray) > 0 THEN ipAddressesArray[1] ELSE << >>
        v4 == Len(ipAddressesArray) > 0 /\ ipv4PatternTest(first)
        i2 == IF Len(ipAddressesArray) = 0 THEN i1
              ELSE [f \in (DOMAIN i1)
                       \cup {IF v4 THEN "ipv4Address" ELSE "ipv6Address"} |->
                     IF f = (IF v4 THEN "ipv4Address" ELSE "ipv6Address")
                        THEN first ELSE i1[f]]
    IN  IF Len(ipAddressesArray) > 1 /\ v4
            THEN [f \in (DOMAIN i2) \cup {"ipv6Address"} |->
                    IF f = "ipv6Address" THEN ipAddressesArray[2] ELSE i2[f]]
            ELSE i2

\* The IPADDRESS_PROPERTY case of the switch.
MapIpAddresses(serviceInfo, ipAddressesArray) ==
    LET i1 == Assign(serviceInfo, "ipAddresses", ipAddressesArray)
        i2 == IF Len(ipAddressesArray) > 0
                THEN IF ipv4PatternTest(ipAddressesArray[1])
                        THEN Assign(i1, "ipv4Address", ipAddressesArray[1])
                        ELSE Assign(i1, "ipv6Address", ipAddressesArray[1])
                ELSE i1
    IN  IF Len(ipAddressesArray) > 1
            THEN Assign(i2, "ipv6Address", ipAddressesArray[2])
            ELSE i2

\* The body of the forEach callback for one key.
MapKey(serviceInfo, properties, key) ==
    IF ~hasKey(properties, key) THEN serviceInfo
    ELSE LET value == lookup(properties, key)
         IN  CASE key = HOSTNAME_PROPERTY -> Assign(serviceInfo, "hostName", value)
               [] key = SERVICENAME_PROPERTY -> Assign(serviceInfo, "serviceName", value)
               [] key = INSTANCENAME_PROPERTY -> Assign(serviceInfo, "instanceName", value)
               [] key = IPADDRESS_PROPERTY -> MapIpAddresses(serviceInfo, value)
               [] key = PORTNUMBER_PROPERTY -> Assign(serviceInfo, "portNumber", value)
               [] key = TEXTATTRIBUTES_PROPERTY -> Assign(serviceInfo, "textAttributes", value)
               [] OTHER -> serviceInfo

RECURSIVE MapKeys(_, _, _)
MapKeys(serviceInfo, properties, n) ==
    IF n = 0 THEN serviceInfo
    ELSE MapKey(MapKeys(serviceInfo, properties, n - 1), properties, propertyKeys[n])

\* The forEach stopping one key short.
getDeviceFromPropertiesShort(properties) ==
    MapKeys(<< >>, properties, Len(propertyKeys) - 1)

getDeviceFromProperties(properties) ==
    MapKeys(<< >>, properties, Len(propertyKeys))

\* ------------------------------------------------- the platform's data
\* Device identifiers the platform assigns.
Ids == {"d1", "d2"}

\* Callbacks the application passes to startListeningForDevicesAsync: closures,
\* of which only the identity counts.  Callback n is the one passed by the
\* call that creates watcher n; 0 is the initial () => {}.
Callbacks == 1..MaxWatchers

Addr4 == << "1", "0", ".", "0", ".", "0", ".", "1" >>

Addr6 == << "f", "e", "8", "0", ":", ":", "2" >>

\* A device whose properties the platform has not populated yet.
BagBare == (HOSTNAME_PROPERTY :> "hostA")

BagFull ==
    (HOSTNAME_PROPERTY :> "hostA") @@ (IPADDRESS_PROPERTY :> << Addr4, Addr6 >>)
        @@ (PORTNUMBER_PROPERTY :> 22)

\* A device that has one IPv6 address only.
BagV6 ==
    (HOSTNAME_PROPERTY :> "hostB") @@ (IPADDRESS_PROPERTY :> << Addr6 >>)
        @@ (TEXTATTRIBUTES_PROPERTY :> "path=/")

DeviceBags == {BagBare, BagFull, BagV6}

\* A dotted string that is no IPv4 address: its first number is 256.
AddrBad == << "2", "5", "6", ".", "1", ".", "1", ".", "1" >>

Addresses == {Addr4, Addr6, AddrBad}

\* The string[] values of IPADDRESS_PROPERTY.
AddressLists ==
    UNION { [1..n -> Addresses] : n \in 0..MaxAddresses }

\* The values the five other keys carry.
KeyValues ==
    (HOSTNAME_PROPERTY :> "hostA") @@ (SERVICENAME_PROPERTY :> "_ssh._tcp")
        @@ (INSTANCENAME_PROPERTY :> "inst") @@ (PORTNUMBER_PROPERTY :> 22)
        @@ (TEXTATTRIBUTES_PROPERTY :> "path=/")

\* The property bags getDeviceFromProperties can be handed: any of the six
\* keys present or absent, with any address list.
MapBags ==
    LET plain == { [k \in ks |-> KeyValues[k]] : ks \in SUBSET (DOMAIN KeyValues) }
    IN  plain \cup { b @@ (IPADDRESS_PROPERTY :> a) : b \in plain, a \in AddressLists }

\* ------------------------------------------------------------------ state
VARIABLES
    DeviceWatcher,           \* this.DeviceWatcher: 0 is null, else a watcher
    watchers,                \* the platform's watchers, by number
    discoveredDevicesMap,    \* entries [id, device], in insertion order
    currentSessionCallback,  \* this.currentSessionCallback
    timers,                  \* delayed reads in flight, oldest first
    props,                   \* each device's property bag, now
    findPc,                  \* findAllDevicesAsync: "idle" or "awaiting"
    instance,                \* DnssdLookupHelper.instance: 0 is undefined, else a helper object
    last,                    \* the step just taken and what it returned
    cbCount,                 \* per id: callback invocations since the table was cleared
    readSince,               \* per id: a delayed read completed since the table was cleared
    deliveredTo,             \* the callback invoked last and the ids delivered to it in a row
    scanEnded,               \* an enumeration-completed of a scan-only session was handled
    entrySession             \* per id in the table: the session whose notification stored it

vars ==
    << DeviceWatcher, watchers, discoveredDevicesMap, currentSessionCallback,
       timers, props, findPc, instance, last, cbCount, readSince,
       deliveredTo, scanEnded, entrySession >>

facade == << DeviceWatcher, discoveredDevicesMap, currentSessionCallback >>

ghosts == << cbCount, readSince, deliveredTo, scanEnded, entrySession >>

\* DeviceWatcherStatus of a watcher that raises events.
RunningStatus == {"started", "enumerationCompleted"}

Running(ws) == { w \in 1..Len(ws) : ws[w].status \in RunningStatus }

MapIds(map) == { map[i].id : i \in 1..Len(map) }

\* Object.values(this.discoveredDevicesMap)
ObjectValues(map) == [i \in 1..Len(map) |-> map[i].device]

EntryIds(map) == [i \in 1..Len(map) |-> map[i].id]

\* The entry the table holds for an identifier: this.discoveredDevicesMap[id]
EntryOf(map, id) == CHOOSE e \in { map[i] : i \in 1..Len(map) } : e.id = id

\* The handler without its identifier check.
IsDiscoveredNever(map, id) == FALSE

\* The check counting a device as discovered only once its record has
\* addresses.
IsDiscoveredPopulated(map, id) ==
    /\ id \in MapIds(map)
    /\ "ipAddresses" \in DOMAIN EntryOf(map, id).device

\* !this.discoveredDevicesMap[id] is false: the table holds the id
IsDiscovered(map, id) == id \in MapIds(map)

\* this.discoveredDevicesMap[id] = device
SetEntry(map, id, device) ==
    IF id \in MapIds(map)
        THEN [i \in 1..Len(map) |->
                IF map[i].id = id THEN [id |-> id, device |-> device] ELSE map[i]]
        ELSE Append(map, [id |-> id, device |-> device])

NoCount == [id \in Ids |-> 0]

NoRead == [id \in Ids |-> FALSE]

NoSession == [id \in Ids |-> 0]

Init ==
    /\ DeviceWatcher = 0
    /\ watchers = << >>
    /\ discoveredDevicesMap = << >>
    /\ currentSessionCallback = 0
    /\ timers = << >>
    /\ props \in [Ids -> DeviceBags]
    /\ findPc = "idle"
    /\ instance = 0
    /\ last = [op |-> "init"]
    /\ cbCount = NoCount
    /\ readSince = NoRead
    /\ deliveredTo = [callback |-> 0, ids |-> {}]
    /\ scanEnded = FALSE
    /\ entrySession = NoSession

\* A listening session never changes what the devices advertise: its
\* behaviours start with one assignment of distinct properties to the devices.
InitSession ==
    /\ Init
    /\ props = [id \in Ids |-> IF id = "d1" THEN BagFull ELSE BagV6]

\* The mapping alone: one device carries any property bag.
InitMap ==
    /\ DeviceWatcher = 0
    /\ watchers = << >>
    /\ discoveredDevicesMap = << >>
    /\ currentSessionCallback = 0
    /\ timers = << >>
    /\ props \in { [id \in Ids |-> IF id = "d1" THEN b ELSE BagBare] : b \in MapBags }
    /\ findPc = "idle"
    /\ instance = 0
    /\ last = [op |-> "init"]
    /\ cbCount = NoCount
    /\ readSince = NoRead
    /\ deliveredTo = [callback |-> 0, ids |-> {}]
    /\ scanEnded = FALSE
    /\ entrySession = NoSession

\* ------------------------------------------------- stopListeningForDevices
\* DeviceWatcher.stop() of a watcher that was never started may be refused by
\* the platform.
StopOutcomes(h, ws) ==
    IF h # 0 /\ ws[h].status \notin RunningStatus THEN {"ok", "throws"}
    ELSE {"ok"}

\* The method, as a function of the fields it reads: what it returns and the
\* fields afterwards.
stopListeningForDevices(h, ws, map, platform) ==
    IF h # 0
        THEN IF platform = "throws"
                THEN [ret |-> "threw", handle |-> h, watchers |-> ws,
                      map |-> map, cleared |-> FALSE]
                ELSE [ret |-> "true", handle |-> 0,
                      watchers |-> [ws EXCEPT ![h].status = "stopped"],
                      map |-> << >>, cleared |-> TRUE]
        ELSE [ret |-> "false", handle |-> h, watchers |-> ws, map |-> map,
              cleared |-> FALSE]

\* An application call of stopListeningForDevices().
Stop ==
    \E platform \in StopOutcomes(DeviceWatcher, watchers) :
        LET r == stopListeningForDevices(DeviceWatcher, watchers,
                                         discoveredDevicesMap, platform)
        IN  /\ DeviceWatcher' = r.handle
            /\ watchers' = r.watchers
            /\ discoveredDevicesMap' = r.map
            /\ cbCount' = IF r.cleared THEN NoCount ELSE cbCount
            /\ readSince' = IF r.cleared THEN NoRead ELSE readSince
            /\ entrySession' = IF r.cleared THEN NoSession ELSE entrySession
            /\ last' = [op |-> "stop", ret |-> r.ret]
            /\ UNCHANGED << currentSessionCallback, timers, props, findPc, instance,
                            deliveredTo, scanEnded >>

\* ------------------------------------------- startListeningForDevicesAsync
\* What the platform does with createWatcher and start.
StartOutcomes == {"ok", "createThrows", "startThrows"}

\* The handle the test of line 171 reads: line 170 has just set it to null.
HandleAtCheck(h) == 0

\* An application call of startListeningForDevicesAsync(callback,
\* shouldListenForUpdates): the promise's executor runs to its end in the call.
Start(callback, shouldListenForUpdates, platform) ==
    /\ callback = Len(watchers) + 1
    /\ IF HandleAtCheck(DeviceWatcher) = 0
          THEN IF platform = "createThrows"
                  THEN /\ DeviceWatcher' = 0
                       /\ UNCHANGED << watchers, currentSessionCallback >>
                       /\ last' = [op |-> "start", outcome |-> "rejected",
                                   created |-> 0, platform |-> platform]
                  ELSE /\ Len(watchers) < MaxWatchers
                       /\ watchers' = Append(watchers,
                              [status |-> IF platform = "ok" THEN "started"
                                                              ELSE "created",
                               upd |-> shouldListenForUpdates])
                       /\ DeviceWatcher' = Len(watchers) + 1
                       /\ currentSessionCallback' = callback
                       /\ last' = [op |-> "start",
                                   outcome |-> IF platform = "ok" THEN "true"
                                                                  ELSE "rejected",
                                   created |-> Len(watchers) + 1,
                                   platform |-> platform]
          ELSE /\ UNCHANGED << DeviceWatcher, watchers, currentSessionCallback >>
               /\ last' = [op |-> "start", outcome |-> "false", created |-> 0,
                           platform |-> platform]
    /\ scanEnded' = FALSE
    /\ UNCHANGED << discoveredDevicesMap, timers, props, findPc, instance,
                    cbCount, readSince, deliveredTo, entrySession >>

\* ------------------------------------------------------ platform events
\* A running watcher raises "added" for a device: onDeviceAdded reads
\* this.currentSessionCallback, and handleDeviceAdded starts its delay.
onDeviceAdded(w, id) ==
    /\ w \in Running(watchers)
    /\ Len(timers) < MaxPending
    /\ timers' = Append(timers, [kind |-> "added", id |-> id,
                                 callback |-> currentSessionCallback,
                                 seen |-> props[id]])
    /\ last' = [op |-> "added"]
    /\ UNCHANGED << facade, watchers, props, findPc, instance, ghosts >>

\* A running watcher raises "updated" for a device.  The listener exists only
\* on a watcher created with shouldListenForUpdates.
onDeviceUpdated(w, id) ==
    /\ w \in Running(watchers)
    /\ IF watchers[w].upd
          THEN /\ Len(timers) < MaxPending
               /\ timers' = Append(timers,
                      [kind |-> "updated", id |-> id,
                       callback |-> currentSessionCallback,
                       seen |-> props[id]])
          ELSE UNCHANGED timers
    /\ last' = [op |-> "updated"]
    /\ UNCHANGED << facade, watchers, props, findPc, instance, ghosts >>

\* A running watcher signals, once, the end of its initial enumeration: the
\* listener of lines 180-186, which captured shouldListenForUpdates.
EnumerationCompleted(w) ==
    /\ w \in 1..Len(watchers)
    /\ watchers[w].status = "started"
    /\ LET ws == [watchers EXCEPT ![w].status = "enumerationCompleted"]
       IN  IF ~watchers[w].upd
              THEN \E platform \in StopOutcomes(DeviceWatcher, ws) :
                     LET r == stopListeningForDevices(DeviceWatcher, ws,
                                  discoveredDevicesMap, platform)
                     IN  /\ DeviceWatcher' = r.handle
                         /\ watchers' = r.watchers
                         /\ discoveredDevicesMap' = r.map
                         /\ cbCount' = IF r.cleared THEN NoCount ELSE cbCount
                         /\ readSince' = IF r.cleared THEN NoRead ELSE readSince
                         /\ entrySession' =
                               IF r.cleared THEN NoSession ELSE entrySession
                         /\ scanEnded' = TRUE
                         /\ last' = [op |-> "enumerationcompleted", w |-> w,
                                     upd |-> FALSE, ret |-> r.ret]
              ELSE /\ watchers' = ws
                   /\ last' = [op |-> "enumerationcompleted", w |-> w,
                               upd |-> TRUE, ret |-> "none"]
                   /\ UNCHANGED << DeviceWatcher, discoveredDevicesMap, cbCount,
                                   readSince, scanEnded, entrySession >>
    /\ UNCHANGED << currentSessionCallback, timers, props, findPc, instance,
                    deliveredTo >>

\* The platform changes a device's properties.
PropertiesChange(id, bag) ==
    /\ props[id] # bag
    /\ props' = [props EXCEPT ![id] = bag]
    /\ last' = [op |-> "properties", id |-> id]
    /\ UNCHANGED << facade, watchers, timers, findPc, instance, ghosts >>

\* ------------------------------------------------- the delayed reads
\* The property read done when the notification arrives, before the delay.
PropertiesAtNotification(t, current) == t.seen

\* _comDevice.properties of line 221 (235): read once the delay has elapsed,
\* it is the device's property bag as the platform has populated it by then;
\* t.seen, what the bag was when the notification was raised, is not used.
PropertiesAtRead(t, current) == current

\* handleDeviceAdded and handleDeviceUpdated after their delay: the timers all
\* wait DEVICE_INFORMATION_PARSING_DELAY, so the oldest fires first.  The rest
\* of the handler runs without a further await.
DelayedRead(kind) ==
    /\ timers # << >>
    /\ Head(timers).kind = kind
    /\ LET t == Head(timers)
           id == t.id
       IN  /\ timers' = Tail(timers)
           /\ readSince' = [readSince EXCEPT ![id] = TRUE]
           /\ IF ~IsDiscovered(discoveredDevicesMap, id)
                 THEN LET device == getDeviceFromProperties(
                                        PropertiesAtRead(t, props[id]))
                          map == SetEntry(discoveredDevicesMap, id, device)
                      IN  /\ discoveredDevicesMap' = map
                          /\ cbCount' = [cbCount EXCEPT ![id] = @ + 1]
                          /\ entrySession' =
                                [entrySession EXCEPT ![id] = t.callback]
                          /\ deliveredTo' =
                                [callback |-> t.callback,
                                 ids |-> IF deliveredTo.callback = t.callback
                                            THEN deliveredTo.ids \cup {id}
                                            ELSE {id}]
                          /\ last' = [op |-> "read", kind |-> kind, id |-> id,
                                      called |-> TRUE, seen |-> t.seen]
                 ELSE /\ last' = [op |-> "read", kind |-> kind, id |-> id,
                                  called |-> FALSE, seen |-> t.seen]
                      /\ UNCHANGED << discoveredDevicesMap, cbCount, deliveredTo,
                                      entrySession >>
    /\ UNCHANGED << DeviceWatcher, watchers, currentSessionCallback, props,
                    findPc, instance, scanEnded >>

\* handleDeviceAdded giving up, after its delay, when the watcher has been
\* stopped meanwhile.
handleDeviceAddedGuarded ==
    IF DeviceWatcher = 0
        THEN /\ timers # << >>
             /\ Head(timers).kind = "added"
             /\ timers' = Tail(timers)
             /\ last' = [op |-> "read", kind |-> "added",
                         id |-> Head(timers).id, called |-> FALSE,
                         seen |-> Head(timers).seen]
             /\ UNCHANGED << facade, watchers, props, findPc, instance, ghosts >>
        ELSE DelayedRead("added")

handleDeviceAdded == DelayedRead("added")

\* handleDeviceUpdated without the test of line 235: every "updated" read
\* stores the device and invokes the callback.
handleDeviceUpdatedUnchecked ==
    /\ timers # << >>
    /\ Head(timers).kind = "updated"
    /\ LET t == Head(timers)
           id == t.id
           device == getDeviceFromProperties(props[id])
       IN  /\ timers' = Tail(timers)
           /\ readSince' = [readSince EXCEPT ![id] = TRUE]
           /\ discoveredDevicesMap' = SetEntry(discoveredDevicesMap, id, device)
           /\ cbCount' = [cbCount EXCEPT ![id] = @ + 1]
           /\ entrySession' = [entrySession EXCEPT ![id] = t.callback]
           /\ deliveredTo' =
                 [callback |-> t.callback,
                  ids |-> IF deliveredTo.callback = t.callback
                             THEN deliveredTo.ids \cup {id}
                             ELSE {id}]
           /\ last' = [op |-> "read", kind |-> "updated", id |-> id,
                       called |-> TRUE, seen |-> t.seen]
    /\ UNCHANGED << DeviceWatcher, watchers, currentSessionCallback, props,
                    findPc, instance, scanEnded >>

handleDeviceUpdated == DelayedRead("updated")

\* ---------------------------------------------------- findAllDevicesAsync
\* Where the platform fails: 0 is the findAllAsync request itself, i in
\* 1..size the read of device number i, size + 1 nowhere.
FindOutcomes(comDevices) == 0..(Len(comDevices) + 1)

\* The collections findAllAsync can return: the devices on the network,
\* any of them, in any order, each with its properties as they are now.
EnumeratedCollections ==
    LET orders == { << >> } \cup { << a >> : a \in Ids }
                    \cup { << a, b >> : <<a, b>> \in { p \in Ids \X Ids : p[1] # p[2] } }
    IN  { [i \in 1..Len(o) |-> props[o[i]]] : o \in orders }

\* The for loop of lines 122-126 from index i on (i counts from 1 here); a
\* throw leaves the loop with the services pushed so far.
RECURSIVE FindLoopShort(_, _, _, _)
\* The loop with the bound i < comDevices.size - 1.
FindLoopShort(comDevices, failAt, i, services) ==
    IF i > Len(comDevices) - 1 THEN services
    ELSE IF failAt = i THEN services
    ELSE FindLoopShort(comDevices, failAt, i + 1,
                       Append(services, getDeviceFromProperties(comDevices[i])))

RECURSIVE FindLoop(_, _, _, _)
FindLoop(comDevices, failAt, i, services) ==
    IF i > Len(comDevices) THEN services
    ELSE IF failAt = i THEN services
    ELSE FindLoop(comDevices, failAt, i + 1,
                  Append(services, getDeviceFromProperties(comDevices[i])))

\* The list the promise resolves to.
FindAllServices(comDevices, failAt) ==
    IF failAt = 0 THEN << >>
    ELSE FindLoop(comDevices, failAt, 1, << >>)

\* The call, up to the await of findAllAsync.
FindAllBegin ==
    /\ findPc = "idle"
    /\ findPc' = "awaiting"
    /\ last' = [op |-> "findAllBegin"]
    /\ UNCHANGED << facade, watchers, timers, props, instance, ghosts >>

\* findAllDevicesAsync resetting the listening table before it returns.
FindAllCompleteClearing ==
    /\ findPc = "awaiting"
    /\ \E comDevices \in EnumeratedCollections :
         \E failAt \in FindOutcomes(comDevices) :
            last' = [op |-> "findAll", outcome |-> "resolved",
                     value |-> FindAllServices(comDevices, failAt),
                     comDevices |-> comDevices, failAt |-> failAt]
    /\ discoveredDevicesMap' = << >>
    /\ findPc' = "idle"
    /\ UNCHANGED << DeviceWatcher, currentSessionCallback, watchers, timers,
                    props, instance, ghosts >>

\* The platform settles findAllAsync and the function runs to its return.
FindAllComplete ==
    /\ findPc = "awaiting"
    /\ \E comDevices \in EnumeratedCollections :
         \E failAt \in FindOutcomes(comDevices) :
            last' = [op |-> "findAll", outcome |-> "resolved",
                     value |-> FindAllServices(comDevices, failAt),
                     comDevices |-> comDevices, failAt |-> failAt]
    /\ findPc' = "idle"
    /\ UNCHANGED << facade, watchers, timers, props, instance, ghosts >>

\* ------------------------------------------- getDeviceFromProperties call
\* A call of getDeviceFromProperties on a device's property bag.
MapDevice(id) ==
    /\ last' = [op |-> "map", properties |-> props[id],
                serviceInfo |-> getDeviceFromProperties(props[id])]
    /\ UNCHANGED << facade, watchers, timers, props, findPc, instance, ghosts >>

\* ------------------------------------------------------------ getInstance
\* new DnssdLookupHelper(): helper objects are numbered as they are
\* constructed, and line 100 is the only place that constructs one.
NewHelper(held) == held + 1

\* getInstance without the test of line 99.
InstanceAfterAlwaysNew(held) == NewHelper(held)

\* DnssdLookupHelper.instance once getInstance has run.
InstanceAfter(held) == IF held = 0 THEN NewHelper(held) ELSE held

\* A call of DnssdLookupHelper.getInstance().
getInstance ==
    /\ instance' = InstanceAfter(instance)
    /\ last' = [op |-> "getInstance", value |-> instance']
    /\ UNCHANGED << facade, watchers, timers, props, findPc, ghosts >>

\* ------------------------------------------------------ specifications
\* The listening sessions: the two API calls, the watchers' events and the
\* delayed reads.
SessionNext ==
    \/ \E callback \in Callbacks, shouldListenForUpdates \in BOOLEAN,
          platform \in StartOutcomes :
            Start(callback, shouldListenForUpdates, platform)
    \/ Stop
    \/ \E w \in 1..MaxWatchers, id \in Ids : onDeviceAdded(w, id)
    \/ \E w \in 1..MaxWatchers, id \in Ids : onDeviceUpdated(w, id)
    \/ \E w \in 1..MaxWatchers : EnumerationCompleted(w)
    \/ handleDeviceAdded
    \/ handleDeviceUpdated

\* The one-shot query, over devices whose properties change.
FindNext ==
    \/ FindAllBegin
    \/ FindAllComplete
    \/ \E id \in Ids, bag \in DeviceBags : PropertiesChange(id, bag)

Next == SessionNext \/ FindNext

Spec == Init /\ [][Next]_vars

SpecSession == InitSession /\ [][SessionNext]_vars

SpecFind == Init /\ [][FindNext]_vars

\* The device whose properties the platform is still populating, or changes
\* later, and the bags it goes through.
PopulatingIds == {"d1"}

PopulatingBags == {BagBare, BagFull}

\* The listening sessions with the event loop's guarantee: a delay that has
\* been started elapses, and its handler then runs.
SpecLive ==
    /\ InitSession
    /\ [][SessionNext]_vars
    /\ WF_vars(handleDeviceAdded)
    /\ WF_vars(handleDeviceUpdated)

\* The one-shot query interleaved with the listening sessions.
FrameNext ==
    \/ SessionNext
    \/ FindAllBegin
    \/ FindAllComplete

SpecFrame == InitSession /\ [][FrameNext]_vars

\* The listening sessions over a device whose properties change.
RecordsNext ==
    \/ SessionNext
    \/ \E id \in PopulatingIds, bag \in PopulatingBags :
          PropertiesChange(id, bag)

SpecRecords == InitSession /\ [][RecordsNext]_vars

\* The property mapping, over every property bag.
MapNext == \E id \in Ids : MapDevice(id)

SpecMap == InitMap /\ [][MapNext]_vars

\* The API calls of callers that obtain the helper from getInstance (the
\* constructor is private).
InstanceNext ==
    \/ getInstance
    \/ /\ instance # 0
       /\ \/ \E callback \in Callbacks, shouldListenForUpdates \in BOOLEAN,
                platform \in StartOutcomes :
                  Start(callback, shouldListenForUpdates, platform)
          \/ Stop
          \/ FindAllBegin
          \/ FindAllComplete

SpecInstance == InitSession /\ [][InstanceNext]_vars

\* ------------------------------------------------------------------ claims
StartStep == last'.op = "start"

StopStep == last'.op = "stop"

\* C1: startListeningForDevicesAsync resolves to false exactly when a watcher
\* is already running, creates no second watcher in that case, and resolves to
\* true only when no watcher was running.
C1_StartRefusedWhileRunning ==
    [][StartStep =>
        /\ (last'.outcome = "false") <=> (Running(watchers) # {})
        /\ (Running(watchers) # {}) => (watchers' = watchers)
        /\ (last'.outcome = "true") => (Running(watchers) = {})]_vars

C3_AccumulatedSet ==
    (last.op = "read" /\ last.called) =>
        /\ last.id \in MapIds(discoveredDevicesMap)
        /\ deliveredTo.ids \subseteq MapIds(discoveredDevicesMap)
        /\ Len(ObjectValues(discoveredDevicesMap))
              = Cardinality(MapIds(discoveredDevicesMap))

\* C4: in a session started with listenForUpdates = false, after the
\* enumeration-completed signal the handle is absent and the watcher of that
\* session is no longer running.
C4_ScanWatcherStopped ==
    (last.op = "enumerationcompleted" /\ ~last.upd) =>
        /\ DeviceWatcher = 0
        /\ last.w \notin Running(watchers)

\* C5: once the enumeration-completed signal of a session started with
\* listenForUpdates = false has been handled, the callback is not invoked
\* again until the next startListeningForDevicesAsync call.
C5_NoDeliveryAfterScan ==
    (last.op = "read" /\ last.called) => ~scanEnded

\* C6: stopListeningForDevices called while a watcher is running returns true,
\* stops that watcher, and leaves the handle absent and the table empty.
C6_StopWhileRunning ==
    [][(StopStep /\ Running(watchers) # {}) =>
        /\ last'.ret = "true"
        /\ Running(watchers) \cap Running(watchers') = {}
        /\ DeviceWatcher' = 0
        /\ discoveredDevicesMap' = << >>]_vars

\* C7: stopListeningForDevices called when no watcher is active returns false
\* and leaves the handle, the table and the session callback as they were; a
\* second consecutive stop returns false.
C7_StopWhenInactive ==
    [][StopStep =>
        /\ (Running(watchers) = {}) =>
              (last'.ret = "false" /\ UNCHANGED facade)
        /\ (last.op = "stop") => (last'.ret = "false")]_vars

\* C8: when the platform fails at any point of findAllDevicesAsync, the
\* request or the read of any enumerated device, the promise resolves, to an
\* empty list.
C8_FailureGivesEmptyList ==
    (last.op = "findAll" /\ last.failAt <= Len(last.comDevices)) =>
        (last.outcome = "resolved" /\ last.value = << >>)

\* C9: when the platform fails while creating or starting the watcher,
\* startListeningForDevicesAsync resolves to false and no watcher is left
\* recorded.
C9_StartFailureGivesFalse ==
    (last.op = "start" /\ last.platform # "ok") =>
        (last.outcome = "false" /\ DeviceWatcher = 0)

\* C10: on success findAllDevicesAsync resolves to one record per enumerated
\* device, in the platform's order, each the mapping of that device's
\* property bag.
C10_OneRecordPerDevice ==
    (last.op = "findAll" /\ last.failAt = Len(last.comDevices) + 1) =>
        /\ last.outcome = "resolved"
        /\ Len(last.value) = Len(last.comDevices)
        /\ \A i \in 1..Len(last.comDevices) :
              last.value[i] = getDeviceFromProperties(last.comDevices[i])

\* C10's case: two devices with different properties were enumerated and
\* mapped.
C10_Witness ==
    /\ last.op = "findAll"
    /\ last.failAt = Len(last.comDevices) + 1
    /\ Len(last.value) = 2
    /\ last.value[1] # last.value[2]

\* The record field each well-known key is mapped to.
KeyField ==
    (HOSTNAME_PROPERTY :> "hostName") @@ (SERVICENAME_PROPERTY :> "serviceName")
        @@ (INSTANCENAME_PROPERTY :> "instanceName")
        @@ (IPADDRESS_PROPERTY :> "ipAddresses")
        @@ (PORTNUMBER_PROPERTY :> "portNumber")
        @@ (TEXTATTRIBUTES_PROPERTY :> "textAttributes")

IsSet(serviceInfo, field) == field \in DOMAIN serviceInfo

\* C11: for every property bag and each of the six keys, a present key's
\* field equals the bag's value, an absent key's field is unset, and an
\* absent address-list key leaves ipAddresses, ipv4Address and ipv6Address
\* unset.
C11_PropertyMapping ==
    (last.op = "map") =>
        LET p == last.properties
            r == last.serviceInfo
        IN  /\ \A key \in DOMAIN KeyField :
                  IF hasKey(p, key)
                     THEN IsSet(r, KeyField[key]) /\ r[KeyField[key]] = p[key]
                     ELSE ~IsSet(r, KeyField[key])
            /\ ~hasKey(p, IPADDRESS_PROPERTY) =>
                  /\ ~IsSet(r, "ipAddresses")
                  /\ ~IsSet(r, "ipv4Address")
                  /\ ~IsSet(r, "ipv6Address")

\* C11's case: a bag with some keys present, the last one among them, and
\* the address list absent has been mapped.
C11_Witness ==
    /\ last.op = "map"
    /\ DOMAIN last.properties
          = {HOSTNAME_PROPERTY, PORTNUMBER_PROPERTY, TEXTATTRIBUTES_PROPERTY}
    /\ last.serviceInfo.textAttributes = "path=/"
    /\ last.serviceInfo.portNumber = 22

\* C12: entry 0 goes to ipv4Address if it passes the IPv4 shape test and to
\* ipv6Address otherwise; a second entry, when there is one, is ipv6Address
\* whatever entry 0 was; an empty list sets neither field; ipv4Address is set
\* from entry 0 only.
C12_AddressClassification ==
    (last.op = "map" /\ hasKey(last.properties, IPADDRESS_PROPERTY)) =>
        LET a == last.properties[IPADDRESS_PROPERTY]
            r == last.serviceInfo
        IN  /\ (Len(a) = 0) =>
                  (~IsSet(r, "ipv4Address") /\ ~IsSet(r, "ipv6Address"))
            /\ (Len(a) >= 1 /\ ipv4PatternTest(a[1])) =>
                  (IsSet(r, "ipv4Address") /\ r.ipv4Address = a[1])
            /\ (Len(a) = 1 /\ ~ipv4PatternTest(a[1])) =>
                  (IsSet(r, "ipv6Address") /\ r.ipv6Address = a[1])
            /\ (Len(a) >= 2) =>
                  (IsSet(r, "ipv6Address") /\ r.ipv6Address = a[2])
            /\ IsSet(r, "ipv4Address") =>
                  (Len(a) >= 1 /\ ipv4PatternTest(a[1]) /\ r.ipv4Address = a[1])
            /\ (Len(a) = 1 /\ ipv4PatternTest(a[1])) => ~IsSet(r, "ipv6Address")

\* C12's case: a list of two entries of which the first is no IPv4 address
\* has been mapped, and the second entry took ipv6Address from the first.
C12_Witness ==
    /\ last.op = "map"
    /\ hasKey(last.properties, IPADDRESS_PROPERTY)
    /\ Len(last.properties[IPADDRESS_PROPERTY]) = 2
    /\ last.properties[IPADDRESS_PROPERTY][1] = AddrBad
    /\ last.properties[IPADDRESS_PROPERTY][2] = Addr6
    /\ last.serviceInfo.ipv6Address = Addr6
    /\ ~IsSet(last.serviceInfo, "ipv4Address")

\* C13: in every mapped record ipv4Address, when set, is item 0 of
\* ipAddresses and ipv6Address, when set, is item 1 of ipAddresses.
C13_FieldsMatchItems ==
    (last.op = "map") =>
        LET r == last.serviceInfo
        IN  /\ IsSet(r, "ipv4Address") =>
                  /\ IsSet(r, "ipAddresses")
                  /\ Len(r.ipAddresses) >= 1
                  /\ r.ipv4Address = r.ipAddresses[1]
            /\ IsSet(r, "ipv6Address") =>
                  /\ IsSet(r, "ipAddresses")
                  /\ Len(r.ipAddresses) >= 2
                  /\ r.ipv6Address = r.ipAddresses[2]

\* C14: the delayed read of an "updated" notification checks the identifier
\* as the read of an "added" one does: for an identifier not in the table
\* it appends one entry and invokes the callback once; for an identifier in
\* the table it leaves the table as it is and does not invoke the callback.
C14_UpdatedChecked ==
    [][(last'.op = "read" /\ last'.kind = "updated") =>
        LET id == last'.id
        IN  IF id \in MapIds(discoveredDevicesMap)
               THEN /\ discoveredDevicesMap' = discoveredDevicesMap
                    /\ cbCount' = cbCount
                    /\ ~last'.called
               ELSE /\ discoveredDevicesMap' =
                          Append(discoveredDevicesMap,
                                 [id |-> id,
                                  device |-> getDeviceFromProperties(props[id])])
                    /\ cbCount' = [cbCount EXCEPT ![id] = @ + 1]
                    /\ last'.called]_vars

\* C14's case: in a session that listens for updates, the read of a spurious
\* "updated" notification, for a device the table holds, has completed.
C14_Witness ==
    /\ last.op = "read"
    /\ last.kind = "updated"
    /\ ~last.called
    /\ last.id \in MapIds(discoveredDevicesMap)
    /\ DeviceWatcher # 0
    /\ watchers[DeviceWatcher].upd
    /\ watchers[DeviceWatcher].status = "enumerationCompleted"

\* C15: every getInstance call returns the same helper object, the first
\* one constructed, so that all callers share one handle, table and callback.
C15_Singleton ==
    /\ instance \in {0, 1}
    /\ (last.op = "getInstance") => (last.value = 1)

\* C15's case: getInstance has been called again after an earlier caller
\* started a session on the helper.
C15_Witness ==
    /\ last.op = "getInstance"
    /\ last.value = 1
    /\ DeviceWatcher # 0
    /\ Running(watchers) # {}

\* C16: after any sequence of start and stop calls at most one watcher the
\* facade created is running, and a running watcher is the one the handle
\* holds.
C16_OneWatcherInHandle ==
    /\ Cardinality(Running(watchers)) <= 1
    /\ \A w \in Running(watchers) : DeviceWatcher = w

\* C17: every list delivered to the callback of a session holds only
\* devices whose notifications were raised during that session, never an
\* entry an earlier session stored.
C17_FreshTable ==
    (last.op = "read" /\ last.called) =>
        \A id \in MapIds(discoveredDevicesMap) :
            entrySession[id] = deliveredTo.callback

\* C18: stopListeningForDevices leaves the delayed reads in flight, and a
\* read that ends its delay when no watcher is left, for an identifier the
\* cleared table does not hold, still stores its device and invokes the
\* callback.
C18_StopLeavesReads ==
    [][/\ (last'.op \in {"stop", "enumerationcompleted"}) => (timers' = timers)
       /\ ( /\ last'.op = "read"
            /\ DeviceWatcher = 0
            /\ Running(watchers) = {}
            /\ last'.id \notin MapIds(discoveredDevicesMap) ) =>
              /\ last'.called
              /\ last'.id \in MapIds(discoveredDevicesMap')
              /\ cbCount' = [cbCount EXCEPT ![last'.id] = @ + 1]]_vars

\* C18's case: no watcher is left, by the handle or on the platform, and a
\* read that outlived the stop has stored its device and invoked the callback.
C18_Witness ==
    /\ last.op = "read"
    /\ last.called
    /\ DeviceWatcher = 0
    /\ Running(watchers) = {}
    /\ discoveredDevicesMap # << >>
    /\ \E w \in 1..Len(watchers) : watchers[w].status = "stopped"

\* C19: once a record is stored for an identifier no later read replaces or
\* alters it, whatever the device's properties have become; the entries stay
\* as they are, in their order, until stopListeningForDevices clears the
\* table.
C19_FirstRecordWins ==
    [][\/ /\ last'.op \in {"stop", "enumerationcompleted"}
          /\ discoveredDevicesMap' = << >>
       \/ \A i \in 1..Len(discoveredDevicesMap) :
             /\ i <= Len(discoveredDevicesMap')
             /\ discoveredDevicesMap'[i] = discoveredDevicesMap[i]]_vars

\* C19's case: a later notification of a stored device whose properties
\* have changed since has been read, and the stored record is still the
\* first one.
C19_Witness ==
    /\ last.op = "read"
    /\ ~last.called
    /\ last.id \in MapIds(discoveredDevicesMap)
    /\ EntryOf(discoveredDevicesMap, last.id).device
          # getDeviceFromProperties(props[last.id])
    /\ last.seen = props[last.id]

\* C20: the identifier is checked and the properties are read when the delay
\* ends, not when the notification is raised, and the check, the insert and
\* the callback invocation are one step: the callback is invoked exactly when
\* the table does not hold the identifier at that moment, and the record
\* stored is the mapping of the property bag of that moment.
C20_ReadAfterDelay ==
    [][(last'.op = "read") =>
        LET id == last'.id
        IN  /\ timers # << >>
            /\ Head(timers).id = id
            /\ last'.called <=> (id \notin MapIds(discoveredDevicesMap))
            /\ IF last'.called
                  THEN /\ discoveredDevicesMap' =
                             Append(discoveredDevicesMap,
                                    [id |-> id,
                                     device |-> getDeviceFromProperties(props[id])])
                       /\ cbCount' = [cbCount EXCEPT ![id] = @ + 1]
                  ELSE /\ discoveredDevicesMap' = discoveredDevicesMap
                       /\ cbCount' = cbCount]_vars

\* C20's case: the properties of a device changed during the delay, and the
\* record stored is the mapping of the bag as it was when the delay ended.
C20_Witness ==
    /\ last.op = "read"
    /\ last.called
    /\ last.seen # props[last.id]
    /\ EntryOf(discoveredDevicesMap, last.id).device
          = getDeviceFromProperties(props[last.id])
    /\ getDeviceFromProperties(last.seen)
          # getDeviceFromProperties(props[last.id])

\* An "added" notification has just been raised for an identifier the table
\* does not hold, with callback c the session callback of that moment.
AddedRaised(id, c) ==
    /\ last.op = "added"
    /\ timers # << >>
    /\ timers[Len(timers)].kind = "added"
    /\ timers[Len(timers)].id = id
    /\ timers[Len(timers)].callback = c
    /\ id \notin MapIds(discoveredDevicesMap)

\* A callback has just been invoked with a list that holds the identifier:
\* the session callback of the notification's moment, or the one of now.
DeliveredWith(id, c) ==
    /\ last.op = "read"
    /\ last.called
    /\ id \in MapIds(discoveredDevicesMap)
    /\ deliveredTo.callback \in {c, currentSessionCallback}

\* C21: every "added" notification a running watcher raises for an
\* identifier not in the table leads, once the delays have elapsed, to an
\* invocation of the session's callback with a list holding that device,
\* however stop and start calls interleave with the delay.
C21_AddedLeadsToDelivery ==
    \A id \in Ids, c \in Callbacks :
        AddedRaised(id, c) ~> DeliveredWith(id, c)

\* The handle holds the watcher created last: no start call was made since
\* the one that created it, and no stop since.
NewestInHandle == DeviceWatcher # 0 /\ DeviceWatcher = Len(watchers)

\* C22: while the most recent startListeningForDevicesAsync call was made
\* with listenForUpdates = false, the handler of an "updated" notification
\* neither changes the table nor invokes the callback.
C22_NoUpdatesInScanMode ==
    [][( /\ NewestInHandle
         /\ ~watchers[DeviceWatcher].upd
         /\ last'.op = "read"
         /\ last'.kind = "updated" ) =>
            /\ discoveredDevicesMap' = discoveredDevicesMap
            /\ cbCount' = cbCount
            /\ ~last'.called]_vars

\* C23: a session started with listenForUpdates = true is stopped by an
\* explicit stopListeningForDevices call only: any other step, short of a
\* further start call, leaves its watcher running and in the handle and keeps
\* every entry of its table.
C23_NoAutoStopWithUpdates ==
    [][( /\ NewestInHandle
         /\ watchers[DeviceWatcher].upd
         /\ DeviceWatcher \in Running(watchers)
         /\ last'.op \notin {"stop", "start"} ) =>
            /\ DeviceWatcher' = DeviceWatcher
            /\ DeviceWatcher \in Running(watchers')
            /\ \A i \in 1..Len(discoveredDevicesMap) :
                  /\ i <= Len(discoveredDevicesMap')
                  /\ discoveredDevicesMap'[i] = discoveredDevicesMap[i]]_vars

\* C24: findAllDevicesAsync, from its call to its return, whether the
\* platform fails or not and whatever a listening session does meanwhile,
\* leaves the handle, the table and the session callback as they are and
\* invokes no callback.
C24_FindAllFrame ==
    [][(last'.op \in {"findAllBegin", "findAll"}) =>
        /\ UNCHANGED facade
        /\ cbCount' = cbCount
        /\ deliveredTo' = deliveredTo
        /\ timers' = timers]_vars

\* C24's case: a findAllDevicesAsync call in which the platform failed has
\* returned while a session is listening, with a device in the table and a
\* delayed read in flight.
C24_Witness ==
    /\ last.op = "findAll"
    /\ last.failAt <= Len(last.comDevices)
    /\ DeviceWatcher \in Running(watchers)
    /\ discoveredDevicesMap # << >>
    /\ timers # << >>

====
